---- MODULE Spec2Model ----
(***************************************************************************)
(* TestWebSocket (webSocketTestUtils): a WebSocket client that records the *)
(* messages it receives and offers three waiters, waitUntil,               *)
(* waitForMessage and waitForMessageCount.  JavaScript runs every handler  *)
(* to completion, so each action below is one whole call, event dispatch   *)
(* or timer callback.                                                      *)
(***************************************************************************)
EXTENDS Integers, Sequences, FiniteSets, TLC

\* ---------------------------------------------------------------- bounds
Values == {"A", "B"}      \* texts the server may send
MaxDeliveries == 2        \* messages one socket receives between two clearMessages
MaxCalls == 1             \* waiter calls made by the test on one socket
MaxPairCalls == 2         \* waiter calls made by a test with concurrent waiters
MaxCount == MaxDeliveries \* largest count asked of waitForMessageCount
MinCount == 0 - 1         \* smallest count asked of waitForMessageCount
MaxRequests == 3          \* requests the clients send in a run of the server
MaxMemberRequests == 4    \* requests sent in a run of the membership test
MaxEchoes == 1            \* echo requests sent by the client under test

\* ------------------------------------------------------------- constants
CONNECTING == "CONNECTING"
OPEN == "OPEN"
CLOSING == "CLOSING"
CLOSED == "CLOSED"
ReadyStates == {CONNECTING, OPEN, CLOSING, CLOSED}
EventTypes == {"open", "close", "message"}

NoRef == 0 - 1            \* no array held
LedgerRef == 0            \* the array behind #messages
HeldRef == 1              \* the array most recently handed to the test
Refs == {LedgerRef, HeldRef}

Clients == {1, 2, 3}      \* the sockets that connect to the server
Senders == {1, 2}         \* the clients that send requests; client 3 only listens
Servers == {1, 2}         \* the servers createWebSocketServer has made in the process
NoServer == 0             \* a socket no server has accepted yet
Groups == {"G", "H"}      \* group names a request may carry
NoGroup == "undefined"    \* webSocket.groupName before it is assigned
NoCloseAfter == 0 - 1     \* closeAfter omitted
CloseAfters == {NoCloseAfter, 1, 2}   \* closeAfter arguments of createSocketClient

\* A message event's data: a text frame (string) or a binary frame (Buffer).
Data == [binary : BOOLEAN, payload : Values]
NoEvent == [binary |-> FALSE, payload |-> "none"]

VARIABLES
  readyState,   \* WebSocket.readyState
  heap,         \* arrays by reference; heap[LedgerRef] is #messages
  listeners,    \* per event type, the registered listeners in registration order
  calls,        \* the waiter calls made so far, in call order
  snapshot,     \* reference the test holds from its last `messages` read
  arrived,      \* history: text of every message event dispatched since
                \* construction or, if there was one, the last clearMessages
  conn,         \* server: per client, the state of its connection
  groupNames,   \* server: the module-level set of group names
  groupName,    \* server: per client, webSocket.groupName
  inbound,      \* per client, the requests it has sent that the server has not handled yet
  sent,         \* per client, the texts the server has sent it, in order
  requests,     \* number of requests the clients have sent
  wss,          \* per client, the server whose wss.clients holds its socket
  v1,           \* createSocketClient: its position, closeAfter, messages array, close() calls
  poller        \* waitForSocketState: its target state and whether it has resolved

clientVars == <<readyState, heap, listeners, calls, snapshot, arrived>>
serverVars == <<conn, groupNames, groupName, inbound, sent, requests, wss>>
helperVars == <<v1, poller>>
vars == <<clientVars, serverVars, helperVars>>

\* ------------------------------------------------------- array primitives
\* event.data.toString("utf8")
ToUtf8String(d) == d.payload

\* an includes that looks at the first element only
Includes_FirstOnly(arr, m) == arr # <<>> /\ arr[1] = m

\* Array.prototype.includes
Includes(arr, m) == \E i \in 1 .. Len(arr) : arr[i] = m

\* Array.prototype.lastIndexOf (0-based, -1 when absent)
LastIndexOf(arr, m) ==
  IF Includes(arr, m)
  THEN (CHOOSE i \in 1 .. Len(arr) :
          arr[i] = m /\ \A j \in (i + 1) .. Len(arr) : arr[j] # m) - 1
  ELSE 0 - 1

\* slice(0, -1): a new array without the last element
Slice_DropsLast(arr) == SubSeq(arr, 1, Len(arr) - 1)

\* Array.prototype.slice(): a new array with the same elements
Slice(arr) == [i \in 1 .. Len(arr) |-> arr[i]]

\* Array.prototype.push
Push(arr, v) == Append(arr, v)

\* only the OPEN check, the CLOSED check forgotten
StateReached_OpenOnly(rs, state) == rs = OPEN /\ state = "open"

\* a closing socket taken for a closed one
StateReached_ClosingCounts(rs, state) ==
  \/ rs = OPEN /\ state = "open"
  \/ rs \in {CLOSING, CLOSED} /\ state = "close"

\* readyState === OPEN && state === "open", or CLOSED && "close"
StateReached(rs, state) ==
  \/ rs = OPEN /\ state = "open"
  \/ rs = CLOSED /\ state = "close"

\* ------------------------------------------------- the program's mutable state
\* st = [heap, listeners, calls]: what handlers read and write.
Prog == [heap |-> heap, listeners |-> listeners, calls |-> calls]

\* get messages() returning #messages itself instead of a copy
messages_Aliased(h) == [heap |-> h, ref |-> LedgerRef]

\* get messages(): a new array holding a copy of #messages.  The test keeps
\* one array at a time, so the new array takes the place of the one it held.
messages(h) ==
  [heap |-> [h EXCEPT ![HeldRef] = Slice(h[LedgerRef])], ref |-> HeldRef]

RemoveFirst(ls, fn, w) ==
  LET idx == {i \in 1 .. Len(ls) : ls[i].fn = fn /\ ls[i].w = w}
  IN IF idx = {} THEN ls
     ELSE LET k == CHOOSE i \in idx : \A j \in idx : i <= j
          IN SubSeq(ls, 1, k - 1) \o SubSeq(ls, k + 1, Len(ls))

\* addEventListener putting the new listener first (prependListener)
addEventListener_Prepends(st, type, fn, w, once) ==
  [st EXCEPT !.listeners[type] = <<[fn |-> fn, w |-> w, once |-> once]>> \o @]

addEventListener(st, type, fn, w, once) ==
  [st EXCEPT !.listeners[type] = Append(@, [fn |-> fn, w |-> w, once |-> once])]

removeEventListener(st, type, fn, w) ==
  [st EXCEPT !.listeners[type] = RemoveFirst(@, fn, w)]

clearTimeout(st, w) == [st EXCEPT !.calls[w].timer = FALSE]

\* resolve(): the first settlement decides the promise, every call is counted
resolve(st, w) ==
  [st EXCEPT !.calls[w].resolves = @ + 1,
             !.calls[w].status = IF @ = "pending" THEN "resolved" ELSE @]

\* resolve(this.#messages): resolving with the ledger itself
resolveWithMessages_Live(st, w) ==
  [resolve(st, w) EXCEPT
     !.calls[w].result = IF st.calls[w].status = "pending" THEN LedgerRef ELSE @]

\* resolving with the messages and taking them out of the ledger
resolveWithMessages_Takes(st, w) ==
  LET got == messages(st.heap)
      st1 == [st EXCEPT !.heap = [got.heap EXCEPT ![LedgerRef] = <<>>]]
  IN [resolve(st1, w) EXCEPT
        !.calls[w].result = IF st.calls[w].status = "pending" THEN got.ref ELSE @]

\* resolve(this.messages)
resolveWithMessages(st, w) ==
  LET got == messages(st.heap)
      st1 == [st EXCEPT !.heap = got.heap]
  IN [resolve(st1, w) EXCEPT
        !.calls[w].result = IF st.calls[w].status = "pending" THEN got.ref ELSE @]

\* `${n}`: the decimal digits of a number
DigitChars == <<"0", "1", "2", "3", "4", "5", "6", "7", "8", "9">>

RECURSIVE Digits(_)
Digits(n) ==
  IF n < 10 THEN <<DigitChars[n + 1]>>
  ELSE Digits(n \div 10) \o <<DigitChars[(n % 10) + 1]>>

NumberToString(n) == IF n < 0 THEN <<"-">> \o Digits(0 - n) ELSE Digits(n)

\* The messages of the three errors, as the pieces of their template literals.
NoError == <<>>

StateError(state) == <<"WebSocket did not ", state, " in time.">>

MessageError(message) ==
  <<"WebSocket did not receive the message \"", message, "\" in time.">>

CountError(count) ==
  <<"WebSocket did not receive ">> \o NumberToString(count) \o <<" messages in time.">>

\* reject(new Error(...)): the first settlement decides the promise and its error
reject(st, w, error) ==
  [st EXCEPT !.calls[w].rejects = @ + 1,
             !.calls[w].status = IF @ = "pending" THEN "rejected" ELSE @,
             !.calls[w].error = IF st.calls[w].status = "pending" THEN error ELSE @]

\* ------------------------------------------------------------- listeners
\* addNewMessage putting the new message first (unshift instead of push)
addNewMessage_Unshift(st, ev) ==
  [st EXCEPT !.heap[LedgerRef] = <<ToUtf8String(ev)>> \o @]

\* constructor: addNewMessage
addNewMessage(st, ev) ==
  [st EXCEPT !.heap[LedgerRef] = Push(@, ToUtf8String(ev))]

\* a close listener that removes addNewMessage from the wrong event
detachRecorder_WrongEvent(st) == removeEventListener(st, "close", "addNewMessage", 0)

\* constructor: the one-shot close listener
detachRecorder(st) == removeEventListener(st, "message", "addNewMessage", 0)

\* handleStateEvent without clearTimeout(timerId)
handleStateEvent_KeepsTimer(st, w) == resolve(st, w)

\* waitUntil: handleStateEvent
handleStateEvent(st, w) == clearTimeout(resolve(st, w), w)

\* checkForMessage removing every "message" listener once it has its message
checkForMessage_RemovesAll(st, w, ev) ==
  IF ToUtf8String(ev) # st.calls[w].message THEN st
  ELSE [clearTimeout(resolve(st, w), w) EXCEPT !.listeners["message"] = <<>>]

\* checkForMessage registered as a one-shot listener: it is gone after the
\* first message, whatever the message
checkForMessage_OneShot(st, w, ev) ==
  LET st1 == removeEventListener(st, "message", "checkForMessage", w)
  IN IF ToUtf8String(ev) # st.calls[w].message THEN st1
     ELSE clearTimeout(resolve(st1, w), w)

\* checkForMessage comparing event.data itself, so that a Buffer never matches
checkForMessage_NoDecode(st, w, ev) ==
  IF ev.binary \/ ev.payload # st.calls[w].message THEN st
  ELSE removeEventListener(clearTimeout(resolve(st, w), w),
                           "message", "checkForMessage", w)

\* checkForMessage without clearTimeout(timerId)
checkForMessage_KeepsTimer(st, w, ev) ==
  IF ToUtf8String(ev) # st.calls[w].message THEN st
  ELSE removeEventListener(resolve(st, w), "message", "checkForMessage", w)

\* waitForMessage: checkForMessage
checkForMessage(st, w, ev) ==
  IF ToUtf8String(ev) # st.calls[w].message THEN st
  ELSE removeEventListener(clearTimeout(resolve(st, w), w),
                           "message", "checkForMessage", w)

\* watchMessageCount returning early on length <= count
watchMessageCount_OffByOne(st, w) ==
  IF Len(st.heap[LedgerRef]) <= st.calls[w].count THEN st
  ELSE removeEventListener(clearTimeout(resolveWithMessages(st, w), w),
                           "message", "watchMessageCount", w)

\* waitForMessageCount: watchMessageCount
watchMessageCount(st, w) ==
  IF Len(st.heap[LedgerRef]) < st.calls[w].count THEN st
  ELSE removeEventListener(clearTimeout(resolveWithMessages(st, w), w),
                           "message", "watchMessageCount", w)

Handle(st, l, ev) ==
  CASE l.fn = "addNewMessage" -> addNewMessage(st, ev)
    [] l.fn = "detachRecorder" -> detachRecorder(st)
    [] l.fn = "handleStateEvent" -> handleStateEvent(st, l.w)
    [] l.fn = "checkForMessage" -> checkForMessage(st, l.w, ev)
    [] l.fn = "watchMessageCount" -> watchMessageCount(st, l.w)

\* EventEmitter.emit: the listeners registered when the event is emitted run
\* in registration order; a once listener is unregistered before it runs.
RECURSIVE RunListeners(_, _, _, _)
RunListeners(ls, st, type, ev) ==
  IF ls = <<>> THEN st
  ELSE LET l == Head(ls)
           st1 == IF l.once THEN removeEventListener(st, type, l.fn, l.w) ELSE st
       IN RunListeners(Tail(ls), Handle(st1, l, ev), type, ev)

emit(st, type, ev) == RunListeners(st.listeners[type], st, type, ev)

Commit(st) ==
  /\ heap' = st.heap
  /\ listeners' = st.listeners
  /\ calls' = st.calls

\* ------------------------------------------------------------------ Init
\* a constructor that does not register addNewMessage
Init_NoRecorder ==
  /\ readyState = CONNECTING
  /\ heap = [r \in Refs |-> <<>>]
  /\ listeners = [t \in EventTypes |->
       CASE t = "close" -> <<[fn |-> "detachRecorder", w |-> 0, once |-> TRUE]>>
         [] OTHER -> <<>>]
  /\ calls = <<>>
  /\ snapshot = NoRef
  /\ arrived = <<>>
  /\ conn = [c \in Clients |-> "connecting"]
  /\ groupNames = {}
  /\ groupName = [c \in Clients |-> NoGroup]
  /\ inbound = [c \in Clients |-> <<>>]
  /\ sent = [c \in Clients |-> <<>>]
  /\ requests = 0
  /\ wss = [c \in Clients |-> NoServer]
  /\ v1 = [pc |-> "idle", closeAfter |-> NoCloseAfter, messages |-> <<>>, closes |-> 0]
  /\ poller = [target |-> "none", status |-> "none"]

\* new TestWebSocket(url): CONNECTING, empty ledger, the two constructor listeners
Init ==
  /\ readyState = CONNECTING
  /\ heap = [r \in Refs |-> <<>>]
  /\ listeners = [t \in EventTypes |->
       CASE t = "message" -> <<[fn |-> "addNewMessage", w |-> 0, once |-> FALSE]>>
         [] t = "close" -> <<[fn |-> "detachRecorder", w |-> 0, once |-> TRUE]>>
         [] OTHER -> <<>>]
  /\ calls = <<>>
  /\ snapshot = NoRef
  /\ arrived = <<>>
  /\ conn = [c \in Clients |-> "connecting"]
  /\ groupNames = {}
  /\ groupName = [c \in Clients |-> NoGroup]
  /\ inbound = [c \in Clients |-> <<>>]
  /\ sent = [c \in Clients |-> <<>>]
  /\ requests = 0
  /\ wss = [c \in Clients |-> NoServer]
  /\ v1 = [pc |-> "idle", closeAfter |-> NoCloseAfter, messages |-> <<>>, closes |-> 0]
  /\ poller = [target |-> "none", status |-> "none"]

\* --------------------------------------------------------- the socket (ws)
\* The connection is established: readyState becomes OPEN, then "open" is emitted.
SocketOpen ==
  /\ readyState = CONNECTING
  /\ readyState' = OPEN
  /\ Commit(emit(Prog, "open", NoEvent))
  /\ UNCHANGED <<snapshot, arrived>>
  /\ UNCHANGED <<serverVars, helperVars>>

\* close() was called, or the closing handshake began: no event yet.
SocketClosing ==
  /\ readyState \in {CONNECTING, OPEN}
  /\ readyState' = CLOSING
  /\ UNCHANGED <<heap, listeners, calls, snapshot, arrived>>
  /\ UNCHANGED <<serverVars, helperVars>>

\* The connection is gone: readyState becomes CLOSED, then "close" is emitted.
SocketClose ==
  /\ readyState # CLOSED
  /\ readyState' = CLOSED
  /\ Commit(emit(Prog, "close", NoEvent))
  /\ UNCHANGED <<snapshot, arrived>>
  /\ UNCHANGED <<serverVars, helperVars>>

\* A frame arrives: "message" is emitted with its data.
Deliver(d) ==
  /\ readyState \in {OPEN, CLOSING}
  /\ Len(arrived) < MaxDeliveries
  /\ Commit(emit(Prog, "message", d))
  /\ arrived' = Append(arrived, ToUtf8String(d))
  /\ UNCHANGED <<readyState, snapshot>>
  /\ UNCHANGED <<serverVars, helperVars>>

\* ------------------------------------------------------- the test's calls
NewCall(kind, state, message, incl, orig, count, status, result) ==
  [kind |-> kind, state |-> state, message |-> message,
   includeExisting |-> incl, originalMessageIndex |-> orig, count |-> count,
   status |-> status, timer |-> (status = "pending"),
   resolves |-> 0, rejects |-> 0, result |-> result, error |-> NoError]

\* get messages()
ReadMessages ==
  /\ LET got == messages(heap)
     IN heap' = got.heap /\ snapshot' = got.ref
  /\ UNCHANGED <<readyState, listeners, calls, arrived>>
  /\ UNCHANGED <<serverVars, helperVars>>

\* clearMessages() removing one message only: splice(0, 1)
ClearMessages_DropsFirst ==
  /\ heap' = [heap EXCEPT ![LedgerRef] = IF @ = <<>> THEN @ ELSE Tail(@)]
  /\ arrived' = <<>>
  /\ UNCHANGED <<readyState, listeners, calls, snapshot>>
  /\ UNCHANGED <<serverVars, helperVars>>

\* clearMessages(): splice(0, length) empties #messages in place
ClearMessages ==
  /\ heap' = [heap EXCEPT ![LedgerRef] = <<>>]
  /\ arrived' = <<>>
  /\ UNCHANGED <<readyState, listeners, calls, snapshot>>
  /\ UNCHANGED <<serverVars, helperVars>>

\* waitUntil(state)
WaitUntil(state) ==
  /\ Len(calls) < MaxCalls
  /\ LET w == Len(calls) + 1
     IN IF StateReached(readyState, state)
        THEN /\ calls' = Append(calls,
                   NewCall("state", state, "none", FALSE, 0 - 1, 0, "returned", NoRef))
             /\ UNCHANGED <<heap, listeners>>
        ELSE LET st0 == [Prog EXCEPT !.calls = Append(@,
                   NewCall("state", state, "none", FALSE, 0 - 1, 0, "pending", NoRef))]
             IN Commit(addEventListener(st0, state, "handleStateEvent", w, TRUE))
  /\ UNCHANGED <<readyState, snapshot, arrived>>
  /\ UNCHANGED <<serverVars, helperVars>>

\* waitForMessage looking at the existing messages whatever the flag says
waitForMessage_IgnoresFlag(message, incl) ==
  /\ LET w == Len(calls) + 1
         orig == LastIndexOf(heap[LedgerRef], message)
     IN IF Includes(heap[LedgerRef], message)
        THEN /\ calls' = Append(calls,
                   NewCall("message", "none", message, incl, 0 - 1, 0, "returned", NoRef))
             /\ UNCHANGED <<heap, listeners>>
        ELSE LET st0 == [Prog EXCEPT !.calls = Append(@,
                   NewCall("message", "none", message, incl, orig, 0, "pending", NoRef))]
             IN Commit(addEventListener(st0, "message", "checkForMessage", w, FALSE))
  /\ UNCHANGED <<readyState, snapshot, arrived>>
  /\ UNCHANGED <<serverVars, helperVars>>

\* waitForMessage(message, includeExistingMessages)
waitForMessage(message, incl) ==
  /\ LET w == Len(calls) + 1
         orig == LastIndexOf(heap[LedgerRef], message)
     IN IF incl /\ Includes(heap[LedgerRef], message)
        THEN /\ calls' = Append(calls,
                   NewCall("message", "none", message, incl, 0 - 1, 0, "returned", NoRef))
             /\ UNCHANGED <<heap, listeners>>
        ELSE LET st0 == [Prog EXCEPT !.calls = Append(@,
                   NewCall("message", "none", message, incl, orig, 0, "pending", NoRef))]
             IN Commit(addEventListener(st0, "message", "checkForMessage", w, FALSE))
  /\ UNCHANGED <<readyState, snapshot, arrived>>
  /\ UNCHANGED <<serverVars, helperVars>>

WaitForMessage(message, incl) ==
  Len(calls) < MaxCalls /\ waitForMessage(message, incl)

\* waitForMessageCount returning early only on length > count
waitForMessageCount_Strict(count) ==
  /\ LET w == Len(calls) + 1
     IN IF Len(heap[LedgerRef]) > count
        THEN LET got == messages(heap)
             IN /\ heap' = got.heap
                /\ calls' = Append(calls,
                     NewCall("count", "none", "none", FALSE, 0 - 1, count, "returned", got.ref))
                /\ UNCHANGED listeners
        ELSE LET st0 == [Prog EXCEPT !.calls = Append(@,
                   NewCall("count", "none", "none", FALSE, 0 - 1, count, "pending", NoRef))]
             IN Commit(addEventListener(st0, "message", "watchMessageCount", w, FALSE))
  /\ UNCHANGED <<readyState, snapshot, arrived>>
  /\ UNCHANGED <<serverVars, helperVars>>

\* waitForMessageCount(count)
waitForMessageCount(count) ==
  /\ LET w == Len(calls) + 1
     IN IF Len(heap[LedgerRef]) >= count
        THEN LET got == messages(heap)
             IN /\ heap' = got.heap
                /\ calls' = Append(calls,
                     NewCall("count", "none", "none", FALSE, 0 - 1, count, "returned", got.ref))
                /\ UNCHANGED listeners
        ELSE LET st0 == [Prog EXCEPT !.calls = Append(@,
                   NewCall("count", "none", "none", FALSE, 0 - 1, count, "pending", NoRef))]
             IN Commit(addEventListener(st0, "message", "watchMessageCount", w, FALSE))
  /\ UNCHANGED <<readyState, snapshot, arrived>>
  /\ UNCHANGED <<serverVars, helperVars>>

WaitForMessageCount(count) ==
  Len(calls) < MaxCalls /\ waitForMessageCount(count)

\* ------------------------------------------------------- timer callbacks
\* the setTimeout callback without its final reject(...)
waitUntilTimeout_NoReject(st, w, rs) ==
  LET st1 == removeEventListener(st, st.calls[w].state, "handleStateEvent", w)
  IN IF StateReached(rs, st.calls[w].state) THEN resolve(st1, w) ELSE st1

\* the setTimeout callback taking a closed socket for success whatever the target
waitUntilTimeout_ClosedResolves(st, w, rs) ==
  LET st1 == removeEventListener(st, st.calls[w].state, "handleStateEvent", w)
  IN IF rs = CLOSED \/ StateReached(rs, st.calls[w].state) THEN resolve(st1, w)
     ELSE reject(st1, w, StateError(st1.calls[w].state))

\* waitUntil: the setTimeout callback
waitUntilTimeout(st, w, rs) ==
  LET st1 == removeEventListener(st, st.calls[w].state, "handleStateEvent", w)
  IN IF StateReached(rs, st.calls[w].state) THEN resolve(st1, w)
     ELSE reject(st1, w, StateError(st1.calls[w].state))

\* waitForMessage: success as the setTimeout callback computes it
MessageSuccess(ledger, c) ==
  IF c.includeExisting
  THEN Includes(ledger, c.message)
  ELSE LastIndexOf(ledger, c.message) > c.originalMessageIndex

\* the setTimeout callback without removeEventListener
waitForMessageTimeout_KeepsListener(st, w) ==
  IF MessageSuccess(st.heap[LedgerRef], st.calls[w])
  THEN resolve(st, w) ELSE reject(st, w, MessageError(st.calls[w].message))

\* waitForMessage: the setTimeout callback
waitForMessageTimeout(st, w) ==
  LET st1 == removeEventListener(st, "message", "checkForMessage", w)
  IN IF MessageSuccess(st1.heap[LedgerRef], st1.calls[w])
     THEN resolve(st1, w) ELSE reject(st1, w, MessageError(st1.calls[w].message))

\* the setTimeout callback rejecting with waitForMessage's error
waitForMessageCountTimeout_MessageError(st, w) ==
  LET st1 == removeEventListener(st, "message", "watchMessageCount", w)
  IN IF Len(st1.heap[LedgerRef]) >= st1.calls[w].count
     THEN resolveWithMessages(st1, w)
     ELSE reject(st1, w, MessageError(NumberToString(st1.calls[w].count)[1]))

\* waitForMessageCount: the setTimeout callback
waitForMessageCountTimeout(st, w) ==
  LET st1 == removeEventListener(st, "message", "watchMessageCount", w)
  IN IF Len(st1.heap[LedgerRef]) >= st1.calls[w].count
     THEN resolveWithMessages(st1, w)
     ELSE reject(st1, w, CountError(st1.calls[w].count))

\* An armed timer expires and its callback runs.
TimerFire(w) ==
  /\ w \in DOMAIN calls
  /\ calls[w].timer
  /\ LET st0 == [Prog EXCEPT !.calls[w].timer = FALSE]
     IN Commit(CASE calls[w].kind = "state" -> waitUntilTimeout(st0, w, readyState)
                 [] calls[w].kind = "message" -> waitForMessageTimeout(st0, w)
                 [] calls[w].kind = "count" -> waitForMessageCountTimeout(st0, w))
  /\ UNCHANGED <<readyState, snapshot, arrived>>
  /\ UNCHANGED <<serverVars, helperVars>>

\* ------------------------------------------- the test tampers with an array
\* References to arrays the test code holds.
HeldRefs ==
  ({snapshot} \cup {calls[w].result : w \in DOMAIN calls}) \ {NoRef}

\* arr.push(v) on an array the test holds
TamperPush(r, v) ==
  /\ r \in HeldRefs
  /\ Len(heap[r]) <= MaxDeliveries
  /\ heap' = [heap EXCEPT ![r] = Push(@, v)]
  /\ UNCHANGED <<readyState, listeners, calls, snapshot, arrived>>
  /\ UNCHANGED <<serverVars, helperVars>>

\* arr.length = 0 on an array the test holds
TamperTruncate(r) ==
  /\ r \in HeldRefs
  /\ heap[r] # <<>>
  /\ heap' = [heap EXCEPT ![r] = <<>>]
  /\ UNCHANGED <<readyState, listeners, calls, snapshot, arrived>>
  /\ UNCHANGED <<serverVars, helperVars>>

\* ---------------------------------------- the server (createWebSocketServer)
\* Texts are sequences of pieces, so that a template literal is a concatenation.
Hi == <<"hi">>
Texts == {Hi}

GroupCreated(g) == <<"GROUP_CREATED: ", g>>
GroupJoined(g) == <<"GROUP_JOINED: ", g>>
GroupUnavailable(g) == <<"GROUP_UNAVAILABLE: ", g>>

\* The server's state as its message handler sees and changes it.
Server ==
  [conn |-> conn, groupNames |-> groupNames, groupName |-> groupName, sent |-> sent,
   wss |-> wss]

\* wss.clients of the server that accepted webSocket: its sockets whose
\* connection is open
wssClients(sv, webSocket) ==
  {c \in Clients : sv.conn[c] = "open" /\ sv.wss[c] = sv.wss[webSocket]}

\* ws.send(text)
send(sv, ws, text) == [sv EXCEPT !.sent[ws] = Append(@, text)]

\* for (let i = 1; i <= 3; i++) webSocket.send(data.value)
RECURSIVE sendTimes(_, _, _, _)
sendTimes(sv, ws, text, n) ==
  IF n = 0 THEN sv ELSE sendTimes(send(sv, ws, text), ws, text, n - 1)

\* targets.forEach((ws) => ws.send(text))
RECURSIVE forEachSend(_, _, _)
forEachSend(sv, targets, text) ==
  IF targets = {} THEN sv
  ELSE LET ws == CHOOSE c \in targets : \A d \in targets : c <= d
       IN forEachSend(send(sv, ws, text), targets \ {ws}, text)

\* case "ECHO" sending to every client
caseEcho_ToAll(sv, webSocket, data) ==
  forEachSend(sv, wssClients(sv, webSocket), data.value)

\* case "ECHO"
caseEcho(sv, webSocket, data) == send(sv, webSocket, data.value)

\* case "ECHO_TIMES_3" with the loop condition i < 3
caseEchoTimes3_OneShort(sv, webSocket, data) == sendTimes(sv, webSocket, data.value, 2)

\* case "ECHO_TIMES_3"
caseEchoTimes3(sv, webSocket, data) == sendTimes(sv, webSocket, data.value, 3)

\* case "ECHO_TO_ALL" skipping the sender
caseEchoToAll_NotSender(sv, webSocket, data) ==
  forEachSend(sv, wssClients(sv, webSocket) \ {webSocket}, data.value)

\* case "ECHO_TO_ALL"
caseEchoToAll(sv, webSocket, data) ==
  forEachSend(sv, wssClients(sv, webSocket), data.value)

\* case "CREATE_GROUP" assigning webSocket.groupName before the has() check
caseCreateGroup_AssignsFirst(sv, webSocket, data) ==
  LET groupName_ == data.value
      sv1 == [sv EXCEPT !.groupName[webSocket] = groupName_]
  IN IF groupName_ \in sv.groupNames
     THEN send(sv1, webSocket, GroupUnavailable(groupName_))
     ELSE send([sv1 EXCEPT !.groupNames = @ \cup {groupName_}],
               webSocket, GroupCreated(groupName_))

\* case "CREATE_GROUP" in which the creator's former group ceases to exist
caseCreateGroup_DropsFormer(sv, webSocket, data) ==
  LET groupName_ == data.value
  IN IF groupName_ \in sv.groupNames
     THEN send(sv, webSocket, GroupUnavailable(groupName_))
     ELSE send([sv EXCEPT !.groupNames =
                            (@ \ {sv.groupName[webSocket]}) \cup {groupName_},
                          !.groupName[webSocket] = groupName_],
               webSocket, GroupCreated(groupName_))

\* case "CREATE_GROUP"
caseCreateGroup(sv, webSocket, data) ==
  LET groupName_ == data.value
  IN IF groupName_ \in sv.groupNames
     THEN send(sv, webSocket, GroupUnavailable(groupName_))
     ELSE send([sv EXCEPT !.groupNames = @ \cup {groupName_},
                          !.groupName[webSocket] = groupName_],
               webSocket, GroupCreated(groupName_))

\* case "JOIN_GROUP" without the has() check
caseJoinGroup_Unchecked(sv, webSocket, data) ==
  LET groupName_ == data.value
  IN send([sv EXCEPT !.groupName[webSocket] = groupName_],
          webSocket, GroupJoined(groupName_))

\* case "JOIN_GROUP" leaving a socket that has a group in it
caseJoinGroup_KeepsFirst(sv, webSocket, data) ==
  LET groupName_ == data.value
  IN IF groupName_ \notin sv.groupNames
     THEN send(sv, webSocket, GroupUnavailable(groupName_))
     ELSE send([sv EXCEPT !.groupName[webSocket] =
                            IF @ = NoGroup THEN groupName_ ELSE @],
               webSocket, GroupJoined(groupName_))

\* case "JOIN_GROUP"
caseJoinGroup(sv, webSocket, data) ==
  LET groupName_ == data.value
  IN IF groupName_ \notin sv.groupNames
     THEN send(sv, webSocket, GroupUnavailable(groupName_))
     ELSE send([sv EXCEPT !.groupName[webSocket] = groupName_],
               webSocket, GroupJoined(groupName_))

\* case "MESSAGE_GROUP" without the sender's membership check
caseMessageGroup_AnySender(sv, webSocket, data) ==
  forEachSend(sv,
    {c \in wssClients(sv, webSocket) : sv.groupName[c] = data.value.groupName},
    data.value.groupMessage)

\* case "MESSAGE_GROUP"
caseMessageGroup(sv, webSocket, data) ==
  IF sv.groupName[webSocket] # data.value.groupName THEN sv
  ELSE forEachSend(sv,
         {c \in wssClients(sv, webSocket) : sv.groupName[c] = data.value.groupName},
         data.value.groupMessage)

\* webSocket.on("message", ...): the handler for one parsed request
onMessage(sv, webSocket, data) ==
  CASE data.type = "ECHO" -> caseEcho(sv, webSocket, data)
    [] data.type = "ECHO_TIMES_3" -> caseEchoTimes3(sv, webSocket, data)
    [] data.type = "ECHO_TO_ALL" -> caseEchoToAll(sv, webSocket, data)
    [] data.type = "CREATE_GROUP" -> caseCreateGroup(sv, webSocket, data)
    [] data.type = "JOIN_GROUP" -> caseJoinGroup(sv, webSocket, data)
    [] data.type = "MESSAGE_GROUP" -> caseMessageGroup(sv, webSocket, data)

\* The requests of a run of the server: broadcasts and group requests.
GroupRequests ==
  [type : {"ECHO_TO_ALL"}, value : Texts]
    \cup [type : {"CREATE_GROUP", "JOIN_GROUP"}, value : Groups]
    \cup [type : {"MESSAGE_GROUP"}, value : [groupName : Groups, groupMessage : Texts]]

\* The requests of the client under test: echoes of a plain value.
EchoRequests == [type : {"ECHO", "ECHO_TIMES_3"}, value : Values]

\* wss.on("connection", ...) of server s: it accepts client c.  The clients
\* are numbered in the order in which they connect.
Accept(c, s) ==
  /\ conn[c] = "connecting"
  /\ \A b \in Clients : b < c => conn[b] # "connecting"
  /\ conn' = [conn EXCEPT ![c] = "open"]
  /\ wss' = [wss EXCEPT ![c] = s]
  /\ UNCHANGED <<groupNames, groupName, inbound, sent, requests>>
  /\ UNCHANGED <<clientVars, helperVars>>

\* A test with one server: it accepts client c.
Connection(c) == Accept(c, 1)

\* client c's connection ends: the server drops its socket from wss.clients
Disconnection(c) ==
  /\ conn[c] = "open"
  /\ conn' = [conn EXCEPT ![c] = "closed"]
  /\ inbound' = [inbound EXCEPT ![c] = <<>>]
  /\ UNCHANGED <<groupNames, groupName, sent, requests, wss>>
  /\ UNCHANGED <<clientVars, helperVars>>

\* client.send(JSON.stringify(request))
ClientSend(c, request) ==
  /\ conn[c] = "open"
  /\ inbound' = [inbound EXCEPT ![c] = Append(@, request)]
  /\ requests' = requests + 1
  /\ UNCHANGED <<conn, groupNames, groupName, sent, wss>>
  /\ UNCHANGED <<clientVars, helperVars>>

GroupSend(c, request) == requests < MaxRequests /\ ClientSend(c, request)

\* The server's socket for client c emits "message" with c's newest request.
ServerHandle_NewestFirst(c) ==
  /\ conn[c] = "open"
  /\ inbound[c] # <<>>
  /\ LET sv == onMessage(Server, c, inbound[c][Len(inbound[c])])
     IN /\ groupNames' = sv.groupNames
        /\ groupName' = sv.groupName
        /\ sent' = sv.sent
  /\ inbound' = [inbound EXCEPT ![c] = SubSeq(@, 1, Len(@) - 1)]
  /\ UNCHANGED <<conn, requests, wss>>
  /\ UNCHANGED <<clientVars, helperVars>>

\* The server's socket for client c emits "message" with c's oldest request.
ServerHandle(c) ==
  /\ conn[c] = "open"
  /\ inbound[c] # <<>>
  /\ LET sv == onMessage(Server, c, Head(inbound[c]))
     IN /\ groupNames' = sv.groupNames
        /\ groupName' = sv.groupName
        /\ sent' = sv.sent
  /\ inbound' = [inbound EXCEPT ![c] = Tail(@)]
  /\ UNCHANGED <<conn, requests, wss>>
  /\ UNCHANGED <<clientVars, helperVars>>

ServerNext ==
  \/ \E c \in Clients : Connection(c)
  \/ \E c \in Clients : Disconnection(c)
  \/ \E c \in Senders, request \in GroupRequests : GroupSend(c, request)
  \/ \E c \in Clients : ServerHandle(c)

ServerSpec == Init /\ [][ServerNext]_vars

\* Two servers made by createWebSocketServer in one process, hence with the
\* one module-level groupNames; each of two clients connects to either.  The
\* servers are numbered in the order in which they are first connected to.
InstancesNext ==
  \/ \E c \in Senders, s \in Servers : s <= c /\ Accept(c, s)
  \/ \E c \in Senders : Disconnection(c)
  \/ \E c \in Senders, request \in GroupRequests : GroupSend(c, request)
  \/ \E c \in Senders : ServerHandle(c)

InstancesSpec == Init /\ [][InstancesNext]_vars

\* The group test's traffic: three clients that stay connected, two of which
\* create, join and message groups.
QueueRequests == {request \in GroupRequests : request.type # "ECHO_TO_ALL"}

QueueNext ==
  \/ \E c \in Clients : Connection(c)
  \/ \E c \in Senders, request \in QueueRequests : GroupSend(c, request)
  \/ \E c \in Clients : ServerHandle(c)

\* The event loop runs a pending "message" event of every open socket.
QueueFairSpec ==
  Init /\ [][QueueNext]_vars /\ \A c \in Clients : WF_vars(ServerHandle(c))

\* Two clients of one server that create, join, leave for another group and
\* message groups.
MemberSend(c, request) == requests < MaxMemberRequests /\ ClientSend(c, request)

MembershipNext ==
  \/ \E c \in Senders : Connection(c)
  \/ \E c \in Senders, request \in QueueRequests : MemberSend(c, request)
  \/ \E c \in Senders : ServerHandle(c)

MembershipSpec == Init /\ [][MembershipNext]_vars

\* ------------------------------------- a TestWebSocket talking to the server
\* Client 1 is the TestWebSocket: it opens once the server has accepted it.
EchoOpen == conn[1] = "open" /\ SocketOpen

\* client.send(JSON.stringify({ type, value })) once the client is open
EchoSend(request) ==
  /\ readyState = OPEN
  /\ Len(inbound[1]) + Len(sent[1]) < MaxEchoes
  /\ ClientSend(1, request)

\* The next text the server sent to client 1 arrives: "message" is emitted.
ServerDeliver ==
  /\ readyState \in {OPEN, CLOSING}
  /\ Len(arrived) < Len(sent[1])
  /\ LET d == [binary |-> FALSE, payload |-> sent[1][Len(arrived) + 1]]
     IN /\ Commit(emit(Prog, "message", d))
        /\ arrived' = Append(arrived, ToUtf8String(d))
  /\ UNCHANGED <<readyState, snapshot>>
  /\ UNCHANGED <<serverVars, helperVars>>

EchoNext ==
  \/ \E c \in Clients : Connection(c)
  \/ EchoOpen
  \/ \E request \in EchoRequests : EchoSend(request)
  \/ \E c \in Clients : ServerHandle(c)
  \/ ServerDeliver
  \/ \E m \in Values : WaitForMessage(m, TRUE)
  \/ WaitForMessageCount(3)
  \/ \E w \in 1 .. MaxCalls : TimerFire(w)

EchoSpec == Init /\ [][EchoNext]_vars

\* ------------------------------------------- the first version's helpers
\* waitForSocketState and createSocketClient, applied to the socket of the
\* model: a TestWebSocket is a WebSocket whose constructor has registered its
\* recorder, so the ledger shows what a listener present from construction
\* sees of the events that createSocketClient's listener is offered.

\* client.close()
close(rs) == IF rs \in {CONNECTING, OPEN} THEN CLOSING ELSE rs

\* the listener closing at every message from the closeAfter-th on
onV1Message_ClosesAtLeast(h, rs, data) ==
  IF h.pc # "attached" THEN [v1 |-> h, readyState |-> rs]
  ELSE LET pushed == Push(h.messages, data)
           closing == Len(pushed) >= h.closeAfter /\ h.closeAfter # NoCloseAfter
       IN [v1 |-> [h EXCEPT !.messages = pushed,
                            !.closes = IF closing THEN @ + 1 ELSE @],
           readyState |-> IF closing THEN close(rs) ELSE rs]

\* client.on("message", (data) => { messages.push(data);
\*   if (messages.length === closeAfter) client.close(); }), if registered
onV1Message(h, rs, data) ==
  IF h.pc # "attached" THEN [v1 |-> h, readyState |-> rs]
  ELSE LET pushed == Push(h.messages, data)
           closing == Len(pushed) = h.closeAfter
       IN [v1 |-> [h EXCEPT !.messages = pushed,
                            !.closes = IF closing THEN @ + 1 ELSE @],
           readyState |-> IF closing THEN close(rs) ELSE rs]

\* createSocketClient registering its listener before it waits for OPEN
createSocketClient_AttachesFirst(closeAfter) ==
  /\ v1.pc = "idle"
  /\ poller.status = "none"
  /\ readyState = CONNECTING
  /\ v1' = [v1 EXCEPT !.pc = "attached", !.closeAfter = closeAfter]
  /\ poller' = [target |-> OPEN, status |-> "polling"]
  /\ UNCHANGED <<clientVars, serverVars>>

\* createSocketClient(port, closeAfter) up to its await: the socket is new and
\* waitForSocketState(client, client.OPEN) has set its first timer.
createSocketClient(closeAfter) ==
  /\ v1.pc = "idle"
  /\ poller.status = "none"
  /\ readyState = CONNECTING
  /\ v1' = [v1 EXCEPT !.pc = "waiting", !.closeAfter = closeAfter]
  /\ poller' = [target |-> OPEN, status |-> "polling"]
  /\ UNCHANGED <<clientVars, serverVars>>

\* waitForSocketState(socket, state) called by the test, which has awaited
\* its earlier calls
waitForSocketState(state) ==
  /\ v1.pc # "waiting"
  /\ poller.status # "polling"
  /\ poller' = [target |-> state, status |-> "polling"]
  /\ UNCHANGED <<v1, clientVars, serverVars>>

\* the timer callback giving up at a mismatch
Poll_NoRetry ==
  /\ poller.status = "polling"
  /\ IF readyState = poller.target
     THEN /\ poller' = [poller EXCEPT !.status = "resolved"]
          /\ v1' = IF v1.pc = "waiting"
                   THEN [v1 EXCEPT !.pc = "attached", !.messages = <<>>]
                   ELSE v1
     ELSE /\ poller' = [poller EXCEPT !.status = "none"]
          /\ v1' = v1
  /\ UNCHANGED <<clientVars, serverVars>>

\* The setTimeout callback of waitForSocketState: resolve at a match,
\* otherwise call waitForSocketState again, which sets the next timer.  The
\* continuation of createSocketClient's await runs in the same turn and
\* registers the message listener.
Poll ==
  /\ poller.status = "polling"
  /\ IF readyState = poller.target
     THEN /\ poller' = [poller EXCEPT !.status = "resolved"]
          /\ v1' = IF v1.pc = "waiting"
                   THEN [v1 EXCEPT !.pc = "attached", !.messages = <<>>]
                   ELSE v1
     ELSE UNCHANGED <<poller, v1>>
  /\ UNCHANGED <<clientVars, serverVars>>

\* A message arrives: the recorder runs, and so does createSocketClient's
\* listener if it is registered.
V1Deliver(d) ==
  /\ readyState \in {OPEN, CLOSING}
  /\ Len(arrived) < MaxDeliveries
  /\ Commit(emit(Prog, "message", d))
  /\ arrived' = Append(arrived, ToUtf8String(d))
  /\ LET r == onV1Message(v1, readyState, d)
     IN v1' = r.v1 /\ readyState' = r.readyState
  /\ UNCHANGED <<snapshot, poller, serverVars>>

HelperNext ==
  \/ \E closeAfter \in CloseAfters : createSocketClient(closeAfter)
  \/ \E state \in ReadyStates : waitForSocketState(state)
  \/ Poll
  \/ SocketOpen
  \/ SocketClosing
  \/ SocketClose
  \/ \E d \in Data : V1Deliver(d)

HelperSpec == Init /\ [][HelperNext]_vars

\* A timer that has been set fires.
HelperFairSpec == HelperSpec /\ WF_vars(Poll)

\* ------------------------------------------------------------------ Next
Next ==
  \/ SocketOpen
  \/ SocketClosing
  \/ SocketClose
  \/ \E d \in Data : Deliver(d)
  \/ ClearMessages
  \/ \E s \in {"open", "close"} : WaitUntil(s)
  \/ \E m \in Values, incl \in BOOLEAN : WaitForMessage(m, incl)
  \/ \E n \in 0 .. MaxCount : WaitForMessageCount(n)
  \/ \E w \in 1 .. MaxCalls : TimerFire(w)

\* A test that waits: the socket, clearMessages and the three waiters.
Spec == Init /\ [][Next]_vars

\* A test that reads arrays and tampers with them: the socket, clearMessages,
\* and the two operations that hand out an array (`messages` and
\* waitForMessageCount, asked for any count from MinCount up).
SnapshotNext ==
  \/ SocketOpen
  \/ SocketClosing
  \/ SocketClose
  \/ \E d \in Data : Deliver(d)
  \/ ReadMessages
  \/ ClearMessages
  \/ \E n \in MinCount .. MaxCount : WaitForMessageCount(n)
  \/ \E w \in 1 .. MaxCalls : TimerFire(w)
  \/ \E r \in Refs, v \in Values : TamperPush(r, v)
  \/ \E r \in Refs : TamperTruncate(r)

SnapshotSpec == Init /\ [][SnapshotNext]_vars

\* A test with concurrent waiters for messages: a socket that opens, receives
\* and closes, and up to MaxPairCalls calls of waitForMessage and
\* waitForMessageCount.
PairWaitForMessage(message, incl) ==
  Len(calls) < MaxPairCalls /\ waitForMessage(message, incl)

PairWaitForMessageCount(count) ==
  Len(calls) < MaxPairCalls /\ waitForMessageCount(count)

PairNext ==
  \/ SocketOpen
  \/ SocketClose
  \/ \E d \in Data : Deliver(d)
  \/ \E m \in Values, incl \in BOOLEAN : PairWaitForMessage(m, incl)
  \/ \E n \in MinCount .. MaxCount : PairWaitForMessageCount(n)
  \/ \E w \in 1 .. MaxPairCalls : TimerFire(w)

PairSpec == Init /\ [][PairNext]_vars

\* A test that waits and also reads `messages`, on a socket that opens,
\* receives and closes.
ReadingNext ==
  \/ SocketOpen
  \/ SocketClose
  \/ \E d \in Data : Deliver(d)
  \/ ReadMessages
  \/ ClearMessages
  \/ \E s \in {"open", "close"} : WaitUntil(s)
  \/ \E m \in Values, incl \in BOOLEAN : WaitForMessage(m, incl)
  \/ \E n \in 0 .. MaxCount : WaitForMessageCount(n)
  \/ \E w \in 1 .. MaxCalls : TimerFire(w)

ReadingSpec == Init /\ [][ReadingNext]_vars

\* The same test under the only scheduling the code relies on: an armed timer
\* that is not cleared eventually runs its callback.
FairSpec == Spec /\ \A w \in 1 .. MaxCalls : WF_vars(TimerFire(w))

\* A test that waits on a socket that opens, receives and closes, under the
\* same scheduling.
CloseNext ==
  \/ SocketOpen
  \/ SocketClose
  \/ \E d \in Data : Deliver(d)
  \/ \E s \in {"open", "close"} : WaitUntil(s)
  \/ \E m \in Values, incl \in BOOLEAN : WaitForMessage(m, incl)
  \/ \E n \in 0 .. MaxCount : WaitForMessageCount(n)
  \/ \E w \in 1 .. MaxCalls : TimerFire(w)

CloseFairSpec ==
  /\ Init /\ [][CloseNext]_vars
  /\ \A w \in 1 .. MaxCalls : WF_vars(TimerFire(w))

TypeOK ==
  /\ readyState \in ReadyStates
  /\ snapshot \in Refs \cup {NoRef}
  /\ Len(arrived) <= MaxDeliveries
  /\ Len(calls) <= MaxCalls

\* ================================================================ claims
Deferred(w) == calls[w].status # "returned"
Pending(w) == calls[w].status = "pending"
Completed(w) == calls[w].status \in {"resolved", "rejected"}

\* Number of registered listeners that belong to call w.
RECURSIVE CountOf(_, _)
CountOf(ls, w) ==
  IF ls = <<>> THEN 0
  ELSE (IF Head(ls).w = w THEN 1 ELSE 0) + CountOf(Tail(ls), w)

ListenerCountIn(ls, w) ==
  CountOf(ls["open"], w) + CountOf(ls["close"], w) + CountOf(ls["message"], w)

ListenerCount(w) == ListenerCountIn(listeners, w)

\* C1: a deferred waiter invokes at most one completion signal in total,
\* never resolve and reject both and neither twice; it has invoked exactly
\* one once it has completed and none while it is pending, whatever the order
\* of socket events, clearMessages calls and timer expiry.
C1_OneCompletionSignal ==
  \A w \in DOMAIN calls :
    Deferred(w) =>
      /\ calls[w].resolves + calls[w].rejects <= 1
      /\ Pending(w) <=> calls[w].resolves + calls[w].rejects = 0
      /\ calls[w].status = "resolved" <=> calls[w].resolves = 1
      /\ calls[w].status = "rejected" <=> calls[w].rejects = 1

\* A waitForMessage whose message arrived while its timer was armed: the
\* listener resolved it, once, and the timer callback will not run.
C1_Witness ==
  \E w \in DOMAIN calls :
    /\ calls[w].kind = "message"
    /\ calls[w].status = "resolved"
    /\ calls[w].resolves = 1 /\ calls[w].rejects = 0
    /\ ~calls[w].timer

\* C2: while pending, a deferred waiter owns exactly one registered listener
\* and one armed timer; once completed, by its event or by its timer, it owns
\* no listener and no armed timer.
C2_ListenerAndTimerOwnership ==
  \A w \in DOMAIN calls :
    /\ Pending(w) => ListenerCount(w) = 1 /\ calls[w].timer
    /\ Completed(w) => ListenerCount(w) = 0 /\ ~calls[w].timer

\* A waitUntil("open") completed on its event: its once listener is gone and
\* its timer is cleared, while the constructor's listeners are still there.
C2_Witness ==
  \E w \in DOMAIN calls :
    /\ calls[w].kind = "state" /\ calls[w].state = "open"
    /\ calls[w].status = "resolved"
    /\ ListenerCount(w) = 0 /\ ~calls[w].timer
    /\ ListenerCount(0) = 2

\* C3: with timers that fire unless cleared, every deferred waiter that is
\* pending eventually completes, whatever the socket does.
C3_WaitersComplete ==
  \A w \in 1 .. MaxCalls :
    (w \in DOMAIN calls /\ Pending(w)) ~> (w \in DOMAIN calls /\ Completed(w))

\* A waitUntil("open") completed although the socket never opened.
C3_Witness ==
  \E w \in DOMAIN calls :
    /\ calls[w].kind = "state" /\ calls[w].state = "open"
    /\ Completed(w)
    /\ readyState = CONNECTING

\* The events of one step, read off the socket's state and the arrival history.
OpenEmitted == readyState # OPEN /\ readyState' = OPEN
CloseEmitted == readyState # CLOSED /\ readyState' = CLOSED
MessageEmitted(m) ==
  /\ Len(arrived') = Len(arrived) + 1
  /\ arrived'[Len(arrived')] = m

\* The step emits the event pending waiter w is waiting for.
QualifyingEvent(w) ==
  /\ Pending(w)
  /\ \/ calls[w].kind = "state" /\ calls[w].state = "open" /\ OpenEmitted
     \/ calls[w].kind = "state" /\ calls[w].state = "close" /\ CloseEmitted
     \/ calls[w].kind = "message" /\ MessageEmitted(calls[w].message)
     \/ /\ calls[w].kind = "count"
        /\ \E m \in Values : MessageEmitted(m)
        /\ Len(arrived') = calls[w].count

\* C4: a pending waiter resolves in the very step that emits its awaited
\* transition, a message equal to its awaited value, or the message that
\* brings the ledger to its count; and a resolved waiter never rejects.
C4_QualifyingEventObserved ==
  [][\A w \in DOMAIN calls :
       /\ QualifyingEvent(w) => calls'[w].status = "resolved"
       /\ calls[w].status = "resolved" =>
            calls'[w].status = "resolved" /\ calls'[w].rejects = 0]_vars

\* A pending count waiter was resolved by the arrival that brought the
\* ledger to its count.
C4_Witness ==
  \E w \in DOMAIN calls :
    /\ calls[w].kind = "count" /\ calls[w].count = MaxDeliveries
    /\ calls[w].status = "resolved"
    /\ Len(arrived) = MaxDeliveries

\* C5: the `messages` accessor returns exactly the messages delivered since
\* construction (since the last clearMessages, once there has been one), in
\* arrival order: none lost, duplicated or reordered.
C5_LedgerIsArrivalOrder ==
  LET got == messages(heap) IN got.heap[got.ref] = arrived

\* Two different messages arrived and the test has read them, in that order,
\* through the accessor.
C5_Witness ==
  /\ Len(arrived) >= 2 /\ arrived[1] # arrived[2]
  /\ snapshot = HeldRef /\ heap[HeldRef] = arrived

\* C6: the recorder is attached at construction: every message that arrives
\* before the first waiter call is in the ledger, and a waitForMessage with
\* includeExisting = true for a message that has arrived (and was not cleared)
\* returns at once, adding no listener.
C6_SendFirstWaitAfterwards ==
  /\ [](calls = <<>> => heap[LedgerRef] = arrived)
  /\ [][\A m \in Values :
          LET n == Len(calls) + 1 IN
            ( /\ Len(calls') = n
              /\ calls'[n].kind = "message"
              /\ calls'[n].message = m
              /\ calls'[n].includeExisting
              /\ \E i \in 1 .. Len(arrived) : arrived[i] = m )
            => calls'[n].status = "returned" /\ listeners' = listeners]_vars

\* The first waiter call of the test was a waitForMessage for a message that
\* had already arrived, and it returned at once.
C6_Witness ==
  /\ Len(calls) = 1
  /\ calls[1].kind = "message" /\ calls[1].includeExisting
  /\ calls[1].status = "returned"
  /\ \E i \in 1 .. Len(arrived) : arrived[i] = calls[1].message

\* A step in which the test mutates an array it was handed.
TamperStep ==
  \/ \E r \in Refs, v \in Values : TamperPush(r, v)
  \/ \E r \in Refs : TamperTruncate(r)

\* C7: the test never holds the ledger array itself, and mutating an array
\* it was handed by `messages` or waitForMessageCount changes neither the
\* ledger nor what `messages` returns next.
C7_SnapshotsAreCopies ==
  /\ [](LedgerRef \notin HeldRefs)
  /\ [][TamperStep =>
          /\ heap'[LedgerRef] = heap[LedgerRef]
          /\ (LET got == messages(heap') IN got.heap[got.ref]) = heap[LedgerRef]]_vars

\* The test pushed onto an array it was handed, which is now longer than the
\* ledger ever gets; the ledger still equals the arrivals.
C7_Witness ==
  /\ HeldRef \in HeldRefs
  /\ Len(heap[HeldRef]) = MaxDeliveries + 1
  /\ heap[LedgerRef] = arrived /\ Len(arrived) = MaxDeliveries

\* C8: waitUntil called while the socket is OPEN with target open, or CLOSED
\* with target close, returns at once: no listener is registered, no timer is
\* armed and no other waiter is touched.
C8_WaitUntilImmediate ==
  [][\A s \in {"open", "close"} :
       LET n == Len(calls) + 1 IN
         ( /\ Len(calls') = n
           /\ calls'[n].kind = "state" /\ calls'[n].state = s
           /\ \/ readyState = OPEN /\ s = "open"
              \/ readyState = CLOSED /\ s = "close" )
         => /\ calls'[n].status = "returned"
            /\ ~calls'[n].timer
            /\ listeners' = listeners
            /\ \A w \in DOMAIN calls : calls'[w] = calls[w]]_vars

\* waitUntil("close") on a CLOSED socket has returned at once.
C8_Witness ==
  \E w \in DOMAIN calls :
    /\ calls[w].kind = "state" /\ calls[w].state = "close"
    /\ calls[w].status = "returned"
    /\ ListenerCount(w) = 0
    /\ readyState = CLOSED

TargetState(state) == IF state = "open" THEN OPEN ELSE CLOSED

\* waitUntil call w signals success in this step: it returns at once or it
\* invokes resolve.
WaitUntilSucceeds(w) ==
  /\ calls'[w].kind = "state"
  /\ \/ w \notin DOMAIN calls /\ calls'[w].status = "returned"
     \/ w \in DOMAIN calls /\ calls'[w].resolves > calls[w].resolves

\* C9: whenever waitUntil signals success, readyState at that instant is the
\* target: OPEN for open, CLOSED for close.
C9_SuccessMeansTargetState ==
  [][\A w \in DOMAIN calls' :
       WaitUntilSucceeds(w) => readyState' = TargetState(calls'[w].state)]_vars

\* A deferred waitUntil("close") resolved, and the socket is CLOSED.
C9_Witness ==
  \E w \in DOMAIN calls :
    /\ calls[w].kind = "state" /\ calls[w].state = "close"
    /\ calls[w].status = "resolved"
    /\ readyState = CLOSED

\* What waiter c waits for, read against a lifecycle state and a ledger.
WaiterCondition(c, rs, ledger) ==
  CASE c.kind = "state" -> rs = TargetState(c.state)
    [] c.kind = "message" ->
         IF c.includeExisting
         THEN \E i \in 1 .. Len(ledger) : ledger[i] = c.message
         ELSE \E i \in (c.originalMessageIndex + 2) .. Len(ledger) :
                ledger[i] = c.message
    [] c.kind = "count" -> Len(ledger) >= c.count

\* C10: when a waiter's timer callback runs, its listener is detached and the
\* waiter resolves if its condition holds of the current state and ledger and
\* rejects otherwise; no waiter rejects while its condition is true.
C10_TimeoutRechecks ==
  [][\A w \in DOMAIN calls :
       /\ TimerFire(w) =>
            /\ ListenerCountIn(listeners', w) = 0
            /\ calls'[w].status =
                 IF WaiterCondition(calls[w], readyState', heap'[LedgerRef])
                 THEN "resolved" ELSE "rejected"
       /\ calls'[w].rejects > calls[w].rejects =>
            ~WaiterCondition(calls[w], readyState', heap'[LedgerRef])]_vars

\* A waitForMessage(value, false) timed out and rejected although an old
\* occurrence of value is in the ledger: no new one had arrived.
C10_Witness ==
  \E w \in DOMAIN calls :
    /\ calls[w].kind = "message" /\ ~calls[w].includeExisting
    /\ calls[w].status = "rejected"
    /\ Includes(heap[LedgerRef], calls[w].message)
    /\ ListenerCount(w) = 0

\* What an error message says: the kind of wait it names and what was awaited.
ErrorKind(error) ==
  CASE error[1] = "WebSocket did not " /\ error[Len(error)] = " in time." -> "state"
    [] error[1] = "WebSocket did not receive the message \""
         /\ error[Len(error)] = "\" in time." -> "message"
    [] error[1] = "WebSocket did not receive "
         /\ error[Len(error)] = " messages in time." -> "count"
    [] OTHER -> "other"

ErrorAwaited(error) == SubSeq(error, 2, Len(error) - 1)

\* C11: every rejection of a waiter carries a timeout error that names the
\* kind of wait and what was awaited (the target state, the expected message,
\* the expected count); a waiter that has not rejected carries no error, and
\* no waiter completes as a failure without one.
C11_RejectionsAreTimeoutErrors ==
  \A w \in DOMAIN calls :
    /\ calls[w].status # "rejected" => calls[w].error = NoError
    /\ calls[w].status = "rejected" =>
         /\ calls[w].rejects = 1
         /\ calls[w].error # NoError
         /\ ErrorKind(calls[w].error) = calls[w].kind
         /\ ErrorAwaited(calls[w].error) =
              CASE calls[w].kind = "state" -> <<calls[w].state>>
                [] calls[w].kind = "message" -> <<calls[w].message>>
                [] calls[w].kind = "count" -> NumberToString(calls[w].count)

\* A waitForMessageCount that timed out: its error names the count.
C11_Witness ==
  \E w \in DOMAIN calls :
    /\ calls[w].kind = "count"
    /\ calls[w].status = "rejected"
    /\ calls[w].error = CountError(calls[w].count)
    /\ calls[w].count = MaxCount

\* The step in which the test makes its next waiter call, of the given kind.
CallStep(kind) ==
  /\ Len(calls') = Len(calls) + 1
  /\ calls'[Len(calls')].kind = kind

\* C12: waitForMessage(value) with includeExisting = true returns at once,
\* registering no listener and arming no timer, exactly when value occurs
\* somewhere in the ledger at call time; otherwise it is deferred, and it then
\* resolves in the step in which a message equal to value arrives and in no
\* other step (its timer callback included).
C12_IncludeExistingWait ==
  [][/\ CallStep("message") /\ calls'[Len(calls')].includeExisting =>
          LET c == calls'[Len(calls')]
              present == \E i \in 1 .. Len(heap[LedgerRef]) :
                           heap[LedgerRef][i] = c.message
          IN IF present
             THEN c.status = "returned" /\ ~c.timer /\ listeners' = listeners
             ELSE /\ c.status = "pending" /\ c.timer
                  /\ ListenerCountIn(listeners', Len(calls')) = 1
     /\ \A w \in DOMAIN calls :
          calls[w].kind = "message" /\ calls[w].includeExisting /\ Pending(w) =>
            /\ calls'[w].status = "resolved" <=> MessageEmitted(calls[w].message)
            /\ TimerFire(w) => calls'[w].status = "rejected"]_vars

\* The value was the second of two different messages in the ledger and the
\* wait returned at once.
C12_Witness ==
  \E w \in DOMAIN calls :
    /\ calls[w].kind = "message" /\ calls[w].includeExisting
    /\ calls[w].status = "returned"
    /\ Len(heap[LedgerRef]) = 2
    /\ heap[LedgerRef][2] = calls[w].message
    /\ heap[LedgerRef][1] # calls[w].message

\* C13: waitForMessage(value, includeExisting = false) is always deferred,
\* even when value is already in the ledger; it resolves in the step in which
\* a new message equal to value arrives and in no other step, and when its
\* timer callback runs first it rejects with its timeout error.
C13_ExcludeExistingWait ==
  [][/\ CallStep("message") /\ ~calls'[Len(calls')].includeExisting =>
          LET c == calls'[Len(calls')]
          IN /\ c.status = "pending" /\ c.timer
             /\ ListenerCountIn(listeners', Len(calls')) = 1
     /\ \A w \in DOMAIN calls :
          calls[w].kind = "message" /\ ~calls[w].includeExisting /\ Pending(w) =>
            /\ calls'[w].status = "resolved" <=> MessageEmitted(calls[w].message)
            /\ TimerFire(w) =>
                 /\ calls'[w].status = "rejected"
                 /\ calls'[w].error = MessageError(calls[w].message)]_vars

\* The value was in the ledger when the wait began and still is, no new
\* occurrence arrived, and the wait timed out.
C13_Witness ==
  \E w \in DOMAIN calls :
    /\ calls[w].kind = "message" /\ ~calls[w].includeExisting
    /\ calls[w].originalMessageIndex >= 0
    /\ LastIndexOf(heap[LedgerRef], calls[w].message) = calls[w].originalMessageIndex
    /\ calls[w].status = "rejected"

\* C14: waitForMessageCount(count) called while the ledger holds at least
\* count messages (count <= 0 on an empty ledger included) returns at once,
\* registering no listener and arming no timer, and what it returns is a new
\* array with the ledger's current contents; the ledger itself is unchanged.
C14_CountImmediate ==
  [][CallStep("count") =>
       LET c == calls'[Len(calls')]
       IN Len(heap[LedgerRef]) >= c.count =>
            /\ c.status = "returned" /\ ~c.timer
            /\ listeners' = listeners
            /\ c.result \in Refs \ {LedgerRef}
            /\ heap'[c.result] = heap[LedgerRef]
            /\ heap'[LedgerRef] = heap[LedgerRef]]_vars

\* The ledger held exactly count messages and the call returned them.
C14_Witness ==
  \E w \in DOMAIN calls :
    /\ calls[w].kind = "count" /\ calls[w].count = MaxDeliveries
    /\ calls[w].status = "returned"
    /\ heap[calls[w].result] = arrived
    /\ Len(arrived) = MaxDeliveries

\* C15: a pending waitForMessageCount(count) resolves in the step in which a
\* message arrives that brings the ledger to count messages, and in no other
\* step; the array it resolves with is a new one holding every message
\* received so far, that last one included, in arrival order.
C15_CountResolvesWithLedger ==
  [][\A w \in DOMAIN calls :
       calls[w].kind = "count" /\ Pending(w) =>
         /\ Len(heap[LedgerRef]) < calls[w].count
         /\ calls'[w].status = "resolved" <=>
              /\ \E m \in Values : MessageEmitted(m)
              /\ Len(heap'[LedgerRef]) = calls[w].count
         /\ calls'[w].status = "resolved" =>
              /\ calls'[w].result \in Refs \ {LedgerRef}
              /\ heap'[calls'[w].result] = arrived'
              /\ Len(arrived') = calls[w].count]_vars

\* Two different messages had arrived when a wait for two resolved, and it
\* resolved with both, in their order of arrival.
C15_Witness ==
  \E w \in DOMAIN calls :
    /\ calls[w].kind = "count" /\ calls[w].count = 2
    /\ calls[w].status = "resolved"
    /\ Len(arrived) = 2 /\ arrived[1] # arrived[2]
    /\ heap[calls[w].result] = arrived

\* Whether a wait begun now would find its condition already met: the early
\* returns of waitForMessage and waitForMessageCount, read against a ledger.
MetAtCall(kind, message, incl, count, ledger) ==
  CASE kind = "message" -> incl /\ \E i \in 1 .. Len(ledger) : ledger[i] = message
    [] kind = "count" -> Len(ledger) >= count

\* C16 as stated: clearMessages() empties the ledger, leaves every existing
\* wait as it is, and changes the outcome of no wait other than a
\* waitForMessage with includeExisting = false started after it: a
\* waitForMessage with includeExisting = true or a waitForMessageCount started
\* right after the clear finds its condition met exactly if it would have
\* right before.
C16_OnlyIndexSensitiveWaitsAffected ==
  [][ClearMessages =>
       /\ heap'[LedgerRef] = <<>>
       /\ calls' = calls
       /\ \A m \in Values :
            MetAtCall("message", m, TRUE, 0, heap'[LedgerRef])
              <=> MetAtCall("message", m, TRUE, 0, heap[LedgerRef])
       /\ \A n \in MinCount .. MaxCount :
            MetAtCall("count", "none", FALSE, n, heap'[LedgerRef])
              <=> MetAtCall("count", "none", FALSE, n, heap[LedgerRef])]_vars

\* C16, amended: clearMessages() empties the ledger and changes nothing else:
\* no waiter's status, result, error, listener or timer, no array handed out
\* earlier, not the socket's state.  After it no waitForMessage finds its
\* message in the ledger and a waitForMessageCount finds its count met only
\* if count <= 0; a waitForMessage with includeExisting = false is deferred
\* before and after alike.
C16_ClearEmptiesLedgerOnly ==
  [][ClearMessages =>
       /\ heap'[LedgerRef] = <<>>
       /\ calls' = calls
       /\ listeners' = listeners
       /\ readyState' = readyState
       /\ \A r \in Refs \ {LedgerRef} : heap'[r] = heap[r]
       /\ \A m \in Values, incl \in BOOLEAN :
            ~MetAtCall("message", m, incl, 0, heap'[LedgerRef])
       /\ \A m \in Values : ~MetAtCall("message", m, FALSE, 0, heap[LedgerRef])
       /\ \A n \in MinCount .. MaxCount :
            MetAtCall("count", "none", FALSE, n, heap'[LedgerRef]) <=> n <= 0]_vars

\* A waitForMessageCount completed with a non-empty array, then the ledger
\* was cleared: the array the wait produced is as it was.
C16_Witness ==
  \E w \in DOMAIN calls :
    /\ calls[w].kind = "count" /\ calls[w].count > 0
    /\ calls[w].status \in {"returned", "resolved"}
    /\ Len(heap[calls[w].result]) >= calls[w].count
    /\ heap[LedgerRef] = <<>> /\ arrived = <<>>

\* C17: concurrent waiters do not interfere.  A waiter's record and its
\* listener change only in a step that emits the event it is waiting for or
\* runs its own timer callback; every pending waiter the step's event
\* qualifies for resolves in that step, so two waiters for the same value
\* resolve on the same arrival; and the recording listener is detached by
\* nothing but the close event.
C17_WaitersAreIndependent ==
  [][/\ \A w \in DOMAIN calls :
          /\ calls'[w] # calls[w] => QualifyingEvent(w) \/ TimerFire(w)
          /\ ListenerCountIn(listeners', w) # ListenerCountIn(listeners, w) =>
               QualifyingEvent(w) \/ TimerFire(w)
          /\ QualifyingEvent(w) => calls'[w].status = "resolved"
          /\ TimerFire(w) /\ Pending(w) => calls'[w].status = "rejected"
     /\ ListenerCountIn(listeners', 0) # ListenerCountIn(listeners, 0) =>
          CloseEmitted]_vars

\* Two waiters for the same value, both begun while it was absent, both
\* resolved, and only one message has arrived.
C17_Witness ==
  /\ Len(calls) = 2
  /\ \A w \in {1, 2} :
       /\ calls[w].kind = "message" /\ calls[w].includeExisting
       /\ calls[w].status = "resolved"
  /\ calls[1].message = calls[2].message
  /\ arrived = <<calls[1].message>>
  /\ ListenerCount(0) = 2

\* C18: the step that emits close leaves none of the constructor's listeners
\* registered, neither addNewMessage nor the one-shot close listener; while
\* the socket is closed none is registered and the ledger does not grow.
C18_CloseDetachesRecorder ==
  /\ [](readyState = CLOSED => ListenerCount(0) = 0)
  /\ [][/\ CloseEmitted => ListenerCountIn(listeners', 0) = 0
        /\ readyState = CLOSED =>
             Len(heap'[LedgerRef]) <= Len(heap[LedgerRef])]_vars

\* The socket closed after it had received messages: they are still in the
\* ledger and the constructor's listeners are gone.
C18_Witness ==
  /\ readyState = CLOSED
  /\ Len(heap[LedgerRef]) = MaxDeliveries
  /\ listeners["message"] = <<>> /\ listeners["close"] = <<>>

\* C19: a waiter that is pending while the socket is closed does not resolve,
\* and, timers firing unless cleared, it eventually rejects with its timeout
\* error.
C19_PendingAfterCloseRejects ==
  /\ [][\A w \in DOMAIN calls :
          readyState = CLOSED /\ Pending(w) =>
            calls'[w].status \in {"pending", "rejected"}]_vars
  /\ \A w \in 1 .. MaxCalls :
       (w \in DOMAIN calls /\ readyState = CLOSED /\ Pending(w))
         ~> (/\ w \in DOMAIN calls
             /\ calls[w].status = "rejected"
             /\ ErrorKind(calls[w].error) = calls[w].kind)

\* On a closed socket a waitUntil("open") has rejected with its timeout error.
C19_Witness ==
  \E w \in DOMAIN calls :
    /\ readyState = CLOSED
    /\ calls[w].kind = "state" /\ calls[w].state = "open"
    /\ calls[w].status = "rejected"
    /\ calls[w].error = StateError("open")
    /\ ListenerCount(w) = 0 /\ ~calls[w].timer

\* C20: the ledger changes only in a step in which a message arrives, and
\* then by exactly that message appended, or in a clearMessages step, and
\* then to empty; a step that begins a wait, runs a timer callback or reads
\* `messages` leaves it as it is, and so does the resolution of a waiter
\* beyond what the arrival itself appended.
C20_LedgerFrame ==
  [][/\ heap'[LedgerRef] # heap[LedgerRef] =>
          \/ \E m \in Values :
               MessageEmitted(m) /\ heap'[LedgerRef] = Append(heap[LedgerRef], m)
          \/ ClearMessages /\ heap'[LedgerRef] = <<>>
     /\ ( \/ Len(calls') > Len(calls)
          \/ \E w \in DOMAIN calls : TimerFire(w)
          \/ ReadMessages )
          => heap'[LedgerRef] = heap[LedgerRef]]_vars

\* A count waiter has resolved and the test has read `messages`; the ledger
\* still holds every message that arrived.
C20_Witness ==
  /\ snapshot = HeldRef
  /\ \E w \in DOMAIN calls : calls[w].kind = "count" /\ calls[w].status = "resolved"
  /\ heap[LedgerRef] = arrived
  /\ Len(arrived) = MaxDeliveries

\* The step in which the server handles a request of the given type from c.
Handles(c, type) ==
  /\ conn[c] = "open"
  /\ inbound[c] # <<>>
  /\ Head(inbound[c]).type = type
  /\ inbound' = [inbound EXCEPT ![c] = Tail(@)]
  /\ conn' = conn

\* C21: when the server handles {type: ECHO, value: v} from a client, it sends
\* v once to that client and nothing to any other client; the sender's ledger
\* is always the delivered beginning of what the server sent it, so a fresh
\* client's ledger becomes exactly [v]; and a waitForMessage(v) pending on
\* the sender resolves in the step in which v is delivered.
C21_Echo ==
  /\ [](/\ Len(heap[LedgerRef]) <= Len(sent[1])
        /\ heap[LedgerRef] = SubSeq(sent[1], 1, Len(heap[LedgerRef])))
  /\ [][/\ \A c \in Clients :
            Handles(c, "ECHO") =>
              /\ sent'[c] = Append(sent[c], Head(inbound[c]).value)
              /\ \A b \in Clients \ {c} : sent'[b] = sent[b]
        /\ \A w \in DOMAIN calls :
            /\ calls[w].kind = "message" /\ Pending(w)
            /\ MessageEmitted(calls[w].message)
            => calls'[w].status = "resolved"]_vars

\* The sender asked for an echo of v, waited for v and the wait resolved; its
\* ledger is [v], and the other two clients, both connected, were sent nothing.
C21_Witness ==
  /\ \E w \in DOMAIN calls :
       /\ calls[w].kind = "message" /\ calls[w].status = "resolved"
       /\ heap[LedgerRef] = <<calls[w].message>>
  /\ sent[1] = heap[LedgerRef]
  /\ inbound[1] = <<>>
  /\ \A c \in {2, 3} : conn[c] = "open" /\ sent[c] = <<>>

\* C22: when the server handles {type: ECHO_TIMES_3, value: v} from a client,
\* it sends v three times to that client and nothing to any other client; a
\* waitForMessageCount(3) pending on the sender resolves in the step that
\* delivers the third text, with the first three texts the server sent, so
\* with [v, v, v] on a fresh client.
C22_EchoTimes3 ==
  [][/\ \A c \in Clients :
          Handles(c, "ECHO_TIMES_3") =>
            LET v == Head(inbound[c]).value
            IN /\ sent'[c] = sent[c] \o <<v, v, v>>
               /\ \A b \in Clients \ {c} : sent'[b] = sent[b]
     /\ \A w \in DOMAIN calls :
          calls[w].kind = "count" /\ calls[w].count = 3 /\ Pending(w) =>
            /\ (Len(arrived) = 2 /\ Len(arrived') = 3) => calls'[w].status = "resolved"
            /\ calls'[w].status = "resolved" =>
                 heap'[calls'[w].result] = SubSeq(sent[1], 1, 3)]_vars

\* The fresh sender asked for three echoes of v and its waitForMessageCount(3)
\* resolved with [v, v, v].
C22_Witness ==
  \E w \in DOMAIN calls, v \in Values :
    /\ calls[w].kind = "count" /\ calls[w].count = 3
    /\ calls[w].status = "resolved"
    /\ heap[calls[w].result] = <<v, v, v>>
    /\ sent[1] = <<v, v, v>>

\* C23: when the server handles {type: ECHO_TO_ALL, value: v}, every client
\* connected at that moment, the sender included and whatever its group, is
\* sent v exactly once; a client that is not connected is sent nothing, and
\* no group name or membership changes.
C23_EchoToAll ==
  [][\A c \in Clients :
       Handles(c, "ECHO_TO_ALL") =>
         /\ \A b \in Clients :
              sent'[b] = IF conn[b] = "open"
                         THEN Append(sent[b], Head(inbound[c]).value)
                         ELSE sent[b]
         /\ groupNames' = groupNames
         /\ groupName' = groupName]_vars

\* Client 1 created G, then client 2, in no group, sent ECHO_TO_ALL: all three
\* clients got the text once.  Client 3 never sends, so it is in no group and
\* only an ECHO_TO_ALL can reach it.
C23_Witness ==
  /\ sent[1] = <<GroupCreated("G"), Hi>>
  /\ sent[2] = <<Hi>>
  /\ sent[3] = <<Hi>>
  /\ groupName[1] = "G" /\ groupName[2] = NoGroup /\ groupName[3] = NoGroup

\* C24: when the server handles CREATE_GROUP with name g: if g is not a known
\* group name, g is added, the sender becomes a member of g and is sent
\* "GROUP_CREATED: g"; if g is known, the sender is sent "GROUP_UNAVAILABLE: g"
\* and neither the group names nor any client's membership change.  Nobody
\* else is sent anything.
C24_CreateGroup ==
  [][\A c \in Clients :
       Handles(c, "CREATE_GROUP") =>
         LET g == Head(inbound[c]).value
         IN IF g \notin groupNames
            THEN /\ groupNames' = groupNames \cup {g}
                 /\ groupName' = [groupName EXCEPT ![c] = g]
                 /\ sent' = [sent EXCEPT ![c] = Append(@, GroupCreated(g))]
            ELSE /\ groupNames' = groupNames
                 /\ groupName' = groupName
                 /\ sent' = [sent EXCEPT ![c] = Append(@, GroupUnavailable(g))]]_vars

\* Client 1 created H, client 2 created G, and client 1 then asked to create
\* G: it was refused and is still a member of H.
C24_Witness ==
  /\ sent[1] = <<GroupCreated("H"), GroupUnavailable("G")>>
  /\ sent[2] = <<GroupCreated("G")>>
  /\ groupNames = {"G", "H"}
  /\ groupName[1] = "H" /\ groupName[2] = "G"

\* C25: when the server handles JOIN_GROUP with name g: if g is a known group
\* name, the sender becomes a member of g and is sent "GROUP_JOINED: g"; if g
\* is unknown, the sender is sent "GROUP_UNAVAILABLE: g" and keeps its
\* membership.  The group names never change, so g is not created, and nobody
\* else is sent anything.
C25_JoinGroup ==
  [][\A c \in Clients :
       Handles(c, "JOIN_GROUP") =>
         LET g == Head(inbound[c]).value
         IN /\ groupNames' = groupNames
            /\ IF g \in groupNames
               THEN /\ groupName' = [groupName EXCEPT ![c] = g]
                    /\ sent' = [sent EXCEPT ![c] = Append(@, GroupJoined(g))]
               ELSE /\ groupName' = groupName
                    /\ sent' = [sent EXCEPT ![c] = Append(@, GroupUnavailable(g))]]_vars

\* Client 1 created G; client 2 joined G and then asked to join the unknown H:
\* it was refused, is still a member of G, and H does not exist.
C25_Witness ==
  /\ sent[1] = <<GroupCreated("G")>>
  /\ sent[2] = <<GroupJoined("G"), GroupUnavailable("H")>>
  /\ groupNames = {"G"}
  /\ groupName[2] = "G"

\* C26: when the server handles MESSAGE_GROUP for group g with text m: if the
\* sender's current group is g, every connected client whose current group is
\* g, the sender included, is sent m exactly once and no other client is sent
\* anything; if the sender's current group is not g, nobody is sent anything.
\* No group name or membership changes.
C26_GroupIsolation ==
  [][\A c \in Clients :
       Handles(c, "MESSAGE_GROUP") =>
         LET g == Head(inbound[c]).value.groupName
             m == Head(inbound[c]).value.groupMessage
         IN /\ \A b \in Clients :
                 sent'[b] = IF /\ groupName[c] = g
                               /\ conn[b] = "open"
                               /\ groupName[b] = g
                            THEN Append(sent[b], m)
                            ELSE sent[b]
            /\ groupNames' = groupNames
            /\ groupName' = groupName]_vars

\* The scenario: client 1 created G, client 2 joined G and messaged G; both
\* got the text after their confirmation, and the connected client 3, which
\* is in no group, got nothing.
C26_Witness ==
  /\ sent[1] = <<GroupCreated("G"), Hi>>
  /\ sent[2] = <<GroupJoined("G"), Hi>>
  /\ sent[3] = <<>>
  /\ conn[3] = "open"
  /\ groupName[1] = "G" /\ groupName[2] = "G" /\ groupName[3] = NoGroup
  /\ requests = 3

\* text is among the texts the server has sent to client c
Received(c, text) == \E i \in DOMAIN sent[c] : sent[c][i] = text

\* Client c's two oldest unhandled requests are JOIN_GROUP(g) and
\* MESSAGE_GROUP(g, m), g exists, and c was never told it joined g.
JoinThenMessage(c, g, m) ==
  /\ conn[c] = "open"
  /\ Len(inbound[c]) >= 2
  /\ inbound[c][1] = [type |-> "JOIN_GROUP", value |-> g]
  /\ inbound[c][2].type = "MESSAGE_GROUP"
  /\ inbound[c][2].value = [groupName |-> g, groupMessage |-> m]
  /\ g \in groupNames
  /\ ~Received(c, GroupJoined(g))

\* Client c was sent the join confirmation for g and, after it, m; and every
\* other connected member of g has been sent m.
JoinedThenMessaged(c, g, m) ==
  /\ \E i, j \in DOMAIN sent[c] :
       i < j /\ sent[c][i] = GroupJoined(g) /\ sent[c][j] = m
  /\ \A b \in Clients \ {c} :
       conn[b] = "open" /\ groupName[b] = g => Received(b, m)

\* C27: the server takes each client's requests oldest first, one whole
\* request per step; a MESSAGE_GROUP(g, m) handled when the last text its
\* sender was sent is the join confirmation for g reaches every connected
\* member of g; and a client whose JOIN_GROUP(g) is directly followed in the
\* queue by MESSAGE_GROUP(g, m), with g existing, is eventually sent the
\* confirmation and then m, while the other members of g get m.
C27_RequestsInOrder ==
  /\ [][\A c \in Clients :
          /\ (conn'[c] = "open" /\ Len(inbound'[c]) < Len(inbound[c]))
                => inbound'[c] = Tail(inbound[c])
          /\ ( /\ Handles(c, "MESSAGE_GROUP")
               /\ sent[c] # <<>>
               /\ sent[c][Len(sent[c])] = GroupJoined(Head(inbound[c]).value.groupName) )
                => \A b \in Clients :
                     conn[b] = "open" /\ groupName[b] = Head(inbound[c]).value.groupName
                       => sent'[b] = Append(sent[b], Head(inbound[c]).value.groupMessage)]_vars
  /\ \A c \in Senders, g \in Groups, m \in Texts :
       JoinThenMessage(c, g, m) ~> JoinedThenMessaged(c, g, m)

\* Client 2 created H; client 1 sent JOIN_GROUP(H) and MESSAGE_GROUP(H, hi)
\* one after the other, and both are now answered: client 1 got the
\* confirmation and then the text, and client 2 got the text.
C27_Witness ==
  /\ sent[2] = <<GroupCreated("H"), Hi>>
  /\ sent[1] = <<GroupJoined("H"), Hi>>
  /\ JoinedThenMessaged(1, "H", Hi)
  /\ inbound[1] = <<>>
  /\ requests = 3

\* The texts of createSocketClient's messages array.
V1Texts == [i \in DOMAIN v1.messages |-> ToUtf8String(v1.messages[i])]

\* The array holds, in order, the latest messages that arrived.
V1HoldsLatest ==
  V1Texts = SubSeq(arrived, Len(arrived) - Len(V1Texts) + 1, Len(arrived))

\* close() is called in the step in which the array's length becomes
\* closeAfter and in no other step, and the array only grows at its end.
V1ClosesAtCloseAfter ==
  [][/\ v1'.closes # v1.closes <=>
          /\ Len(v1'.messages) = v1.closeAfter
          /\ Len(v1.messages) # v1.closeAfter
     /\ v1'.closes # v1.closes =>
          v1'.closes = v1.closes + 1 /\ readyState' = CLOSING
     /\ v1.pc = "attached" =>
          \/ v1'.messages = v1.messages
          \/ \E d \in Data : v1'.messages = Append(v1.messages, d)]_vars

\* C28 as stated: close() is called exactly when the number of recorded
\* messages becomes closeAfter, and once the client is CLOSED after that call
\* its array holds exactly the first closeAfter messages received after the
\* listener was attached, in order; with closeAfter omitted the helper never
\* calls close().
C28_ClosedHoldsExactlyFirstN ==
  /\ V1ClosesAtCloseAfter
  /\ [](/\ V1HoldsLatest
        /\ v1.closeAfter = NoCloseAfter => v1.closes = 0
        /\ (readyState = CLOSED /\ v1.closes > 0) =>
             Len(v1.messages) = v1.closeAfter)

\* C28, amended: close() is called exactly when the number of recorded
\* messages becomes closeAfter, once; once the client is CLOSED after that
\* call its array begins with the first closeAfter messages received after
\* the listener was attached, in order, and may hold more, which arrived
\* while the socket was closing; with closeAfter omitted the helper never
\* calls close().
C28_ClosedHoldsAtLeastFirstN ==
  /\ V1ClosesAtCloseAfter
  /\ [](/\ V1HoldsLatest
        /\ v1.closeAfter = NoCloseAfter => v1.closes = 0
        /\ v1.closes <= 1
        /\ v1.closes = 1 <=>
             (v1.closeAfter # NoCloseAfter /\ Len(v1.messages) >= v1.closeAfter)
        /\ v1.closes = 1 => readyState \in {CLOSING, CLOSED})

\* createSocketClient(port, 1) closed its client at the first message, a
\* second message arrived while the socket was closing, and the socket is
\* now CLOSED with two messages in the array.
C28_Witness ==
  /\ readyState = CLOSED
  /\ v1.closeAfter = 1
  /\ v1.closes = 1
  /\ Len(v1.messages) = 2

\* C29: createSocketClient's listener is registered only in the step in which
\* the polling wait for OPEN resolves, with the socket OPEN; a message that
\* arrives while the listener is not registered never enters the messages
\* array, so the array can lack messages that arrived since the socket was
\* constructed; the ledger of the TestWebSocket holds every message that
\* arrived.
C29_LateListenerMisses ==
  /\ [](/\ heap[LedgerRef] = arrived
        /\ Len(v1.messages) <= Len(arrived)
        /\ V1HoldsLatest
        /\ v1.pc # "attached" => v1.messages = <<>>)
  /\ [][/\ (v1.pc # "attached" /\ v1'.pc = "attached") =>
            /\ v1.pc = "waiting"
            /\ poller.status = "polling" /\ poller.target = OPEN
            /\ poller'.status = "resolved"
            /\ readyState = OPEN /\ readyState' = OPEN
            /\ v1'.messages = <<>>
        /\ (v1.pc # "attached" /\ arrived' # arrived) =>
            /\ v1'.messages = <<>>
            /\ heap'[LedgerRef] = Append(heap[LedgerRef], arrived'[Len(arrived')])]_vars

\* A message arrived between the socket's opening and the poll that saw it
\* OPEN: the listener is registered now, a later message is in the array, and
\* the first one is in the ledger only.
C29_Witness ==
  /\ v1.pc = "attached"
  /\ Len(arrived) = 2
  /\ Len(v1.messages) = 1
  /\ heap[LedgerRef] = arrived
  /\ V1Texts = <<arrived[2]>>

\* C30: waitForSocketState resolves only in a poll that finds readyState equal
\* to the awaited state; until then it stays polling, and it has no other
\* outcome; and a poller whose socket is in the awaited state resolves unless
\* the socket leaves that state first.
C30_PollsUntilState ==
  /\ [](poller.status \in {"none", "polling", "resolved"})
  /\ [][/\ (poller.status = "polling" /\ poller'.status # "polling") =>
            /\ poller'.status = "resolved"
            /\ poller'.target = poller.target
            /\ readyState = poller.target
            /\ readyState' = readyState
        /\ poller'.status = "resolved" => poller.status \in {"polling", "resolved"}]_vars
  /\ \A state \in ReadyStates :
       (poller.status = "polling" /\ poller.target = state /\ readyState = state)
         ~> (poller.status = "resolved" \/ readyState # state)

\* The test waited for CLOSED on a socket that was still open when the wait
\* began; the poller kept polling and has resolved now that it is CLOSED.
C30_Witness ==
  /\ poller = [target |-> CLOSED, status |-> "resolved"]
  /\ readyState = CLOSED
  /\ v1.pc = "attached"
  /\ v1.closes = 1

C32_DeferredCountSnapshot ==
  [][/\ \A w \in DOMAIN calls :
          calls[w].kind = "count" =>
            /\ (Pending(w) /\ calls'[w].status = "resolved") =>
                 /\ Len(heap'[calls'[w].result]) = calls[w].count
                 /\ heap'[calls'[w].result] = heap'[LedgerRef]
                 /\ calls'[w].result # LedgerRef
            /\ ( /\ calls[w].status = "resolved"
                 /\ \/ ClearMessages
                    \/ \E m \in Values : MessageEmitted(m)
                 /\ \A u \in DOMAIN calls : calls'[u].result = calls[u].result )
                 => heap'[calls[w].result] = heap[calls[w].result]
     /\ CallStep("count") =>
          LET c == calls'[Len(calls')]
          IN c.status = "returned" =>
               /\ Len(heap[LedgerRef]) >= c.count
               /\ heap'[c.result] = heap[LedgerRef]]_vars

\* A waitForMessageCount(1) was deferred and resolved at the first message;
\* a second message has arrived since, and the array it resolved with still
\* holds the first message only.
C32_Witness ==
  \E w \in DOMAIN calls :
    /\ calls[w].kind = "count" /\ calls[w].count = 1
    /\ calls[w].status = "resolved"
    /\ Len(heap[LedgerRef]) = 2
    /\ heap[calls[w].result] = <<heap[LedgerRef][1]>>

\* C33: the recording listener, while it is registered, is the first
\* "message" listener, and it is registered until the socket is CLOSED, so it
\* runs before every waiter listener; whenever waitForMessage signals success
\* the awaited value is in the ledger at that instant; and whenever the
\* listener of a count waiter runs, the ledger already ends with the message
\* being dispatched, which the listener counts.
C33_RecorderRunsFirst ==
  /\ [](/\ \A i \in DOMAIN listeners["message"] :
             listeners["message"][i].fn = "addNewMessage" => i = 1
        /\ readyState # CLOSED =>
             /\ listeners["message"] # <<>>
             /\ listeners["message"][1].fn = "addNewMessage")
  /\ [][/\ \A w \in DOMAIN calls' :
             ( /\ calls'[w].kind = "message"
               /\ \/ w \notin DOMAIN calls /\ calls'[w].status = "returned"
                  \/ w \in DOMAIN calls /\ calls'[w].resolves > calls[w].resolves )
               => \E i \in DOMAIN heap'[LedgerRef] :
                    heap'[LedgerRef][i] = calls'[w].message
        /\ \A w \in DOMAIN calls, m \in Values :
             ( /\ calls[w].kind = "count"
               /\ CountOf(listeners["message"], w) = 1
               /\ MessageEmitted(m) )
               => /\ heap'[LedgerRef] = Append(heap[LedgerRef], m)
                  /\ calls'[w].status = "resolved" <=>
                       Len(heap[LedgerRef]) + 1 >= calls[w].count]_vars

\* The recorder and the listeners of two waiters were registered when a
\* message arrived: the waitForMessage for it resolved, the ledger holds it,
\* and the waitForMessageCount(2) counted it and is still waiting.
C33_Witness ==
  /\ Len(calls) = 2
  /\ \E w, u \in DOMAIN calls :
       /\ calls[w].kind = "message" /\ calls[w].status = "resolved"
       /\ heap[LedgerRef] = <<calls[w].message>>
       /\ calls[u].kind = "count" /\ calls[u].count = 2 /\ Pending(u)
  /\ Len(listeners["message"]) = 2
  /\ listeners["message"][1].fn = "addNewMessage"

\* The clients that have been told that they created g.
Creators(g) == {c \in Clients : Received(c, GroupCreated(g))}

\* C34: the set of group names only grows, whatever request is handled and
\* whoever disconnects; the one set serves every server, so a name is known
\* exactly if some client of some server has created it, it is created at
\* most once, and a CREATE_GROUP for a known name is answered
\* GROUP_UNAVAILABLE and changes nothing, even when the creator has
\* disconnected or was a client of another server.
C34_GroupNamesOnlyGrow ==
  /\ [](\A g \in Groups :
          /\ g \in groupNames <=> Creators(g) # {}
          /\ Cardinality(Creators(g)) <= 1
          /\ \A c \in Creators(g) :
               Cardinality({i \in DOMAIN sent[c] : sent[c][i] = GroupCreated(g)}) = 1)
  /\ [][/\ groupNames \subseteq groupNames'
        /\ \A c \in Clients :
             (Handles(c, "CREATE_GROUP") /\ Head(inbound[c]).value \in groupNames) =>
               /\ sent' = [sent EXCEPT
                             ![c] = Append(@, GroupUnavailable(Head(inbound[c]).value))]
               /\ groupNames' = groupNames
               /\ groupName' = groupName]_vars

\* Client 1 created G on the first server and disconnected; client 2, on the
\* second server, was then refused G, which is still a known name although
\* no connected client is a member of it.
C34_Witness ==
  /\ sent[1] = <<GroupCreated("G")>>
  /\ conn[1] = "closed"
  /\ wss[1] = 1 /\ wss[2] = 2
  /\ conn[2] = "open"
  /\ sent[2] = <<GroupUnavailable("G")>>
  /\ groupNames = {"G"}
  /\ \A c \in Clients : conn[c] = "open" => groupName[c] # "G"

\* The groups client c was told it created or joined and is no longer in.
FormerGroups(c) ==
  {g \in Groups \ {groupName[c]} :
     Received(c, GroupCreated(g)) \/ Received(c, GroupJoined(g))}

\* C35: a client has one group or none, and its group is a known name; a
\* CREATE_GROUP or JOIN_GROUP that succeeds makes the named group its only
\* group; a MESSAGE_GROUP for a group the client was in and has left is not
\* sent to it, and when the client itself sends one it is sent to nobody.
C35_OneGroupAtATime ==
  /\ [](\A c \in Clients :
          /\ groupName[c] \in Groups \cup {NoGroup}
          /\ groupName[c] # NoGroup => groupName[c] \in groupNames)
  /\ [][\A c \in Clients :
          /\ ( /\ Handles(c, "CREATE_GROUP") \/ Handles(c, "JOIN_GROUP")
               /\ sent'[c][Len(sent'[c])] # GroupUnavailable(Head(inbound[c]).value) )
               => /\ groupName' = [groupName EXCEPT ![c] = Head(inbound[c]).value]
                  /\ FormerGroups(c)' = (FormerGroups(c) \cup {groupName[c]})
                                           \ {Head(inbound[c]).value, NoGroup}
          /\ \A b \in Clients :
               ( /\ Handles(b, "MESSAGE_GROUP")
                 /\ Head(inbound[b]).value.groupName \in FormerGroups(c) )
                 => /\ sent'[c] = sent[c]
                    /\ b = c => sent' = sent]_vars

\* Client 1 created H and client 2 joined it; client 2 then created G, and a
\* message of client 1 to H has reached client 1 only.
C35_Witness ==
  /\ sent[1] = <<GroupCreated("H"), Hi>>
  /\ sent[2] = <<GroupJoined("H"), GroupCreated("G")>>
  /\ groupName[1] = "H" /\ groupName[2] = "G"
  /\ FormerGroups(2) = {"H"}
  /\ inbound[1] = <<>> /\ inbound[2] = <<>>
  /\ requests = 4

\* C36: a message that does not satisfy a pending waiter leaves the waiter as
\* it is: when a message other than the awaited value arrives (waitForMessage)
\* or one that leaves the ledger below count (waitForMessageCount), the waiter
\* stays pending with no completion signal, its listener stays registered and
\* its timer stays armed, and the ledger records the message.
C36_NonMatchingMessageFrame ==
  [][\A w \in DOMAIN calls, m \in Values :
       ( /\ Pending(w)
         /\ MessageEmitted(m)
         /\ \/ calls[w].kind = "message" /\ calls[w].message # m
            \/ calls[w].kind = "count" /\ Len(heap[LedgerRef]) + 1 < calls[w].count )
         => /\ calls'[w] = calls[w]
            /\ calls'[w].timer
            /\ CountOf(listeners'["message"], w) = 1
            /\ CountOf(listeners["message"], w) = 1
            /\ heap'[LedgerRef] = Append(heap[LedgerRef], m)]_vars

\* A waitForMessage("A") and a waitForMessageCount(2) are pending with their
\* listeners and timers, and the ledger holds the one message "B".
C36_Witness ==
  /\ Len(calls) = 2
  /\ \E w, u \in DOMAIN calls :
       /\ calls[w].kind = "message" /\ calls[w].message = "A"
       /\ calls[u].kind = "count" /\ calls[u].count = 2
       /\ Pending(w) /\ Pending(u)
       /\ calls[w].timer /\ calls[u].timer
       /\ CountOf(listeners["message"], w) = 1
       /\ CountOf(listeners["message"], u) = 1
  /\ heap[LedgerRef] = <<"B">>

====
